---- MODULE Spec2Model ----
(***************************************************************************)
(* Model of PasswordGenerator (Task-3-Password-Generator) and of the menu  *)
(* shell that drives it.  Python strings are sequences of one-character    *)
(* strings, so that slicing, joining, replace() and str() are computed the *)
(* way the interpreter computes them.                                      *)
(***************************************************************************)
EXTENDS Integers, Sequences, FiniteSets, TLC

VARIABLES
    history,    \* self.history: the list of generated strings
    op,         \* the method that ran last ("init" right after __init__)
    args,       \* the arguments of that call
    ret,        \* the value it returned: [type, val]
    rng,        \* the random generators it drew from: pairs <<step, module>>
    printed,    \* what it wrote to the terminal
    clipboard,  \* the text held by the clipboard service (pyperclip)
    tasks,      \* TaskManager: self.tasks, the list of task records
    storage,    \* TaskManager: the content of the storage file
    calc_history \* ScientificCalculator: self.history

vars == <<history, op, args, ret, rng, printed, clipboard, tasks, storage,
          calc_history>>

----------------------------------------------------------------------------
(* Bounds of the model.                                                    *)

\* largest password length requested
MaxLen == 4
\* longest history in the session specification
MaxHist == 3
\* longest history in the history-view specification
HistDepth == 15
\* largest word count requested
MaxWords == 7
\* strings handed to check_strength in a single call: up to MaxCore free
\* characters, then up to MaxPad repeats of one character
MaxCore == 3
MaxPad == 12

----------------------------------------------------------------------------
(* Program constants.                                                      *)

\* `if length < 4`
MinLength == 4
\* `self.history[-10:]`
RecentCount == 10
\* `secrets.randbelow(100)`
SuffixBound == 100
\* `if 3 <= word_count <= 6`
MinWords == 3
MaxWordsAllowed == 6

\* string.ascii_lowercase
lowercase ==
    <<"a", "b", "c", "d", "e", "f", "g", "h", "i", "j", "k", "l", "m",
      "n", "o", "p", "q", "r", "s", "t", "u", "v", "w", "x", "y", "z">>

\* string.ascii_uppercase
uppercase ==
    <<"A", "B", "C", "D", "E", "F", "G", "H", "I", "J", "K", "L", "M",
      "N", "O", "P", "Q", "R", "S", "T", "U", "V", "W", "X", "Y", "Z">>

\* string.digits
digits ==
    <<"0", "1", "2", "3", "4", "5", "6", "7", "8", "9">>

\* string.punctuation; "grave" stands for the grave accent (U+0060), which
\* a TLA+ string cannot hold
symbols ==
    <<"!", "\"", "#", "$", "%", "&", "'", "(", ")", "*", "+", ",", "-",
      ".", "/", ":", ";", "<", "=", ">", "?", "@", "[", "\\", "]", "^",
      "_", "grave", "{", "|", "}", "~">>

\* the word list of generate_passphrase
words ==
    << <<"a", "l", "p", "h", "a">>,
       <<"b", "r", "a", "v", "o">>,
       <<"c", "h", "a", "r", "l", "i", "e">>,
       <<"d", "e", "l", "t", "a">>,
       <<"e", "c", "h", "o">>,
       <<"f", "o", "x", "t", "r", "o", "t">>,
       <<"g", "o", "l", "f">>,
       <<"h", "o", "t", "e", "l">>,
       <<"i", "n", "d", "i", "a">>,
       <<"j", "u", "l", "i", "e", "t", "t">>,
       <<"k", "i", "l", "o">>,
       <<"l", "i", "m", "a">>,
       <<"m", "i", "k", "e">>,
       <<"n", "o", "v", "e", "m", "b", "e", "r">>,
       <<"o", "s", "c", "a", "r">>,
       <<"p", "a", "p", "a">>,
       <<"q", "u", "e", "b", "e", "c">>,
       <<"r", "o", "m", "e", "o">>,
       <<"s", "i", "e", "r", "r", "a">>,
       <<"t", "a", "n", "g", "o">>,
       <<"u", "n", "i", "f", "o", "r", "m">>,
       <<"v", "i", "c", "t", "o", "r">>,
       <<"w", "h", "i", "s", "k", "e", "y">>,
       <<"x", "r", "a", "y">>,
       <<"y", "a", "n", "k", "e", "e">>,
       <<"z", "u", "l", "u">>,
       <<"o", "c", "e", "a", "n">>,
       <<"m", "o", "u", "n", "t", "a", "i", "n">>,
       <<"r", "i", "v", "e", "r">>,
       <<"f", "o", "r", "e", "s", "t">>,
       <<"d", "e", "s", "e", "r", "t">>,
       <<"i", "s", "l", "a", "n", "d">>,
       <<"v", "a", "l", "l", "e", "y">>,
       <<"c", "a", "n", "y", "o", "n">>,
       <<"s", "u", "m", "m", "i", "t">> >>

ErrLength ==
    <<"E", "r", "r", "o", "r", ":", " ", "P", "a", "s", "s", "w", "o",
      "r", "d", " ", "l", "e", "n", "g", "t", "h", " ", "m", "u", "s",
      "t", " ", "b", "e", " ", "a", "t", " ", "l", "e", "a", "s", "t",
      " ", "4", " ", "c", "h", "a", "r", "a", "c", "t", "e", "r", "s">>

ErrNoClass ==
    <<"E", "r", "r", "o", "r", ":", " ", "A", "t", " ", "l", "e", "a",
      "s", "t", " ", "o", "n", "e", " ", "c", "h", "a", "r", "a", "c",
      "t", "e", "r", " ", "t", "y", "p", "e", " ", "m", "u", "s", "t",
      " ", "b", "e", " ", "s", "e", "l", "e", "c", "t", "e", "d">>

\* every error value the generator returns starts with these characters
ErrorPrefix ==
    <<"E", "r", "r", "o", "r", ":">>

----------------------------------------------------------------------------
(* Python built-ins, computed as the interpreter computes them.            *)

Range(s) == {s[i] : i \in 1..Len(s)}

\* str.replace(old, '') for a one-character old: every occurrence goes
replace(chars, old) == SelectSeq(chars, LAMBDA c : c # old)

\* indexing or iterating a str yields one-character strings
StrItems(s) == [i \in 1..Len(s) |-> <<s[i]>>]

\* secrets.randbelow(n): any integer of [0, n)
randbelow(n) == 0..(n - 1)

\* secrets.choice(seq) is seq[secrets.randbelow(len(seq))]; the model lets
\* the source land only on the items of seq that are in `sample`.
choice(seq, sample) ==
    {seq[i + 1] : i \in {j \in randbelow(Len(seq)) : seq[j + 1] \in sample}}

\* random.shuffle(x): Fisher-Yates over the Mersenne Twister; every
\* permutation of x is a possible outcome.
shuffle(x) ==
    {[i \in 1..Len(x) |-> x[p[i]]] : p \in Permutations(1..Len(x))}

\* ''.join / sep.join over a list of strings
RECURSIVE join(_, _)
join(sep, parts) ==
    IF parts = <<>> THEN <<>>
    ELSE IF Len(parts) = 1 THEN parts[1]
    ELSE parts[1] \o sep \o join(sep, Tail(parts))

\* str(n) for n >= 0: decimal digits, no padding
RECURSIVE str(_)
str(n) ==
    IF n < 10 THEN <<digits[n + 1]>>
    ELSE str(n \div 10) \o <<digits[(n % 10) + 1]>>

IndexIn(seq, c) == CHOOSE i \in 1..Len(seq) : seq[i] = c

upper(c) == IF c \in Range(lowercase) THEN uppercase[IndexIn(lowercase, c)] ELSE c

lower(c) == IF c \in Range(uppercase) THEN lowercase[IndexIn(uppercase, c)] ELSE c

\* str.capitalize(): first character upper-cased, the rest lower-cased
capitalize(w) ==
    [i \in 1..Len(w) |-> IF i = 1 THEN upper(w[i]) ELSE lower(w[i])]

islower(c) == c \in Range(lowercase)

isupper(c) == c \in Range(uppercase)

isdigit(c) == c \in Range(digits)

\* self.history[:10] in place of self.history[-10:]
LastSlice_First(list, n) ==
    SubSeq(list, 1, IF Len(list) > n THEN n ELSE Len(list))

\* self.history[-10:]
LastSlice(list, n) ==
    SubSeq(list, IF Len(list) > n THEN Len(list) - n + 1 ELSE 1, Len(list))

\* enumerate(list, 1)
enumerate1(list) == [i \in 1..Len(list) |-> <<i, list[i]>>]

\* the values a Python call returns
StrVal(s) == [type |-> "str", val |-> s]

NoneVal == [type |-> "None", val |-> <<>>]

DictVal(d) == [type |-> "dict", val |-> d]

\* a call without arguments
NoArgs == [none |-> TRUE]

\* terminal output: the fixed texts printed, and the values shown with them
Output(lines, shown) == [lines |-> lines, shown |-> shown]

Silent == Output(<<>>, <<>>)

IsErrorText(s) ==
    /\ Len(s) >= Len(ErrorPrefix)
    /\ SubSeq(s, 1, Len(ErrorPrefix)) = ErrorPrefix

----------------------------------------------------------------------------
(* PasswordGenerator.generate_password                                     *)

\* the floor tested against zero instead of the minimum
LengthTooShort_Positive(length) == length < 1

LengthTooShort(length) == length < MinLength

\* the second replace() left out: only 'l' is removed
LowerChars_KeepsO(exclude_ambiguous) ==
    IF exclude_ambiguous THEN replace(lowercase, "l") ELSE lowercase

LowerChars(exclude_ambiguous) ==
    IF exclude_ambiguous
    THEN replace(replace(lowercase, "l"), "o")
    ELSE lowercase

UpperChars(exclude_ambiguous) ==
    IF exclude_ambiguous
    THEN replace(replace(uppercase, "I"), "O")
    ELSE uppercase

DigitChars(exclude_ambiguous) ==
    IF exclude_ambiguous
    THEN replace(replace(digits, "0"), "1")
    ELSE digits

\* the symbols added outside their `if use_symbols` block
char_pool_AlwaysSymbols(use_upper, use_lower, use_digits, use_symbols, exclude_ambiguous) ==
    (IF use_lower THEN LowerChars(exclude_ambiguous) ELSE <<>>)
    \o (IF use_upper THEN UpperChars(exclude_ambiguous) ELSE <<>>)
    \o (IF use_digits THEN DigitChars(exclude_ambiguous) ELSE <<>>)
    \o symbols

\* char_pool after the four `if use_*` blocks
char_pool(use_upper, use_lower, use_digits, use_symbols, exclude_ambiguous) ==
    (IF use_lower THEN LowerChars(exclude_ambiguous) ELSE <<>>)
    \o (IF use_upper THEN UpperChars(exclude_ambiguous) ELSE <<>>)
    \o (IF use_digits THEN DigitChars(exclude_ambiguous) ELSE <<>>)
    \o (IF use_symbols THEN symbols ELSE <<>>)

\* required_chars.append(secrets.choice(chars)) of one `if use_*` block
Pick(flag, chars, sample) ==
    IF flag THEN {<<c>> : c \in choice(StrItems(chars), sample)} ELSE {<<>>}

\* the symbol block adds to the pool but appends no mandatory character
required_chars_NoSymbol(use_upper, use_lower, use_digits, use_symbols, exclude_ambiguous, sample) ==
    {l \o u \o d :
        l \in Pick(use_lower, LowerChars(exclude_ambiguous), sample),
        u \in Pick(use_upper, UpperChars(exclude_ambiguous), sample),
        d \in Pick(use_digits, DigitChars(exclude_ambiguous), sample)}

\* the values required_chars can have after the four blocks
required_chars(use_upper, use_lower, use_digits, use_symbols, exclude_ambiguous, sample) ==
    {l \o u \o d \o s :
        l \in Pick(use_lower, LowerChars(exclude_ambiguous), sample),
        u \in Pick(use_upper, UpperChars(exclude_ambiguous), sample),
        d \in Pick(use_digits, DigitChars(exclude_ambiguous), sample),
        s \in Pick(use_symbols, symbols, sample)}

\* the mandatory characters not counted
remaining_length_Full(length, required) == length

remaining_length(length, required) == length - Len(required)

\* range(remaining_length + 1): one filler character too many
Fillers_OneMore(n, pool, sample) ==
    IF n + 1 <= 0 THEN {<<>>} ELSE [1..(n + 1) -> choice(StrItems(pool), sample)]

\* the filler drawn from all four alphabets, whatever the flags
Fillers_AnyClass(n, pool, sample) ==
    IF n <= 0 THEN {<<>>}
    ELSE [1..n -> choice(StrItems(lowercase \o uppercase \o digits \o symbols),
                         sample)]

\* [secrets.choice(char_pool) for _ in range(remaining_length)]
Fillers(n, pool, sample) ==
    IF n <= 0 THEN {<<>>} ELSE [1..n -> choice(StrItems(pool), sample)]

\* the generators a successful call draws from, step by step
PasswordDraws(n) ==
    {<<"required_chars", "secrets">>, <<"shuffle", "random">>}
    \cup (IF n > 0 THEN {<<"remaining", "secrets">>} ELSE {})

\* insert(0, x) in place of append(x)
StoreInHistory_Front(list, x) == <<x>> \o list

\* self.history.append(x)
StoreInHistory(list, x) == Append(list, x)

\* the body of generate_password: what the call does to the generator
PasswordCall(length, use_upper, use_lower, use_digits, use_symbols, exclude_ambiguous, sample) ==
    LET pool == char_pool(use_upper, use_lower, use_digits, use_symbols, exclude_ambiguous)
    IN  /\ args' = [length |-> length, use_upper |-> use_upper,
                    use_lower |-> use_lower, use_digits |-> use_digits,
                    use_symbols |-> use_symbols,
                    exclude_ambiguous |-> exclude_ambiguous]
        /\ IF LengthTooShort(length)
           THEN /\ ret' = StrVal(ErrLength)
                /\ rng' = {}
                /\ UNCHANGED history
           ELSE IF pool = <<>>
           THEN /\ ret' = StrVal(ErrNoClass)
                /\ rng' = {}
                /\ UNCHANGED history
           ELSE \E required \in required_chars(use_upper, use_lower, use_digits,
                                               use_symbols, exclude_ambiguous, sample) :
                \E filler \in Fillers(remaining_length(length, required), pool, sample) :
                \E password_chars \in shuffle(required \o filler) :
                    LET password == join(<<>>, password_chars)
                    IN  /\ rng' = PasswordDraws(remaining_length(length, required))
                        /\ history' = StoreInHistory(history, password)
                        /\ ret' = StrVal(password)

generate_password(length, use_upper, use_lower, use_digits, use_symbols, exclude_ambiguous, sample) ==
    /\ op' = "generate_password"
    /\ UNCHANGED <<tasks, storage, calc_history>>
    /\ PasswordCall(length, use_upper, use_lower, use_digits, use_symbols,
                    exclude_ambiguous, sample)
    /\ printed' = Silent
    /\ UNCHANGED clipboard

----------------------------------------------------------------------------
(* PasswordGenerator.generate_passphrase                                   *)

\* range(word_count - 1): one word too few
selected_words_OneShort(word_count, wordSample) ==
    IF word_count <= 1 THEN {<<>>}
    ELSE [1..(word_count - 1) -> {capitalize(w) : w \in choice(words, wordSample)}]

\* [secrets.choice(words).capitalize() for _ in range(word_count)]
selected_words(word_count, wordSample) ==
    IF word_count <= 0 THEN {<<>>}
    ELSE [1..word_count -> {capitalize(w) : w \in choice(words, wordSample)}]

PassphraseDraws(word_count) ==
    {<<"suffix", "secrets">>}
    \cup (IF word_count > 0 THEN {<<"selected_words", "secrets">>} ELSE {})

\* the body of generate_passphrase: what the call does to the generator
PassphraseCall(word_count, wordSample, suffixSample) ==
    \E selected \in selected_words(word_count, wordSample) :
    \E n \in {k \in randbelow(SuffixBound) : k \in suffixSample} :
        LET passphrase == join(<<"-">>, selected) \o str(n)
        IN  /\ args' = [word_count |-> word_count]
            /\ rng' = PassphraseDraws(word_count)
            /\ history' = StoreInHistory(history, passphrase)
            /\ ret' = StrVal(passphrase)

generate_passphrase(word_count, wordSample, suffixSample) ==
    /\ op' = "generate_passphrase"
    /\ UNCHANGED <<tasks, storage, calc_history>>
    /\ PassphraseCall(word_count, wordSample, suffixSample)
    /\ printed' = Silent
    /\ UNCHANGED clipboard

----------------------------------------------------------------------------
(* PasswordGenerator.check_strength                                        *)

\* any(c.islower() for c in password), and the other three tests
any_islower(password) == \E i \in 1..Len(password) : islower(password[i])

any_isupper(password) == \E i \in 1..Len(password) : isupper(password[i])

any_isdigit(password) == \E i \in 1..Len(password) : isdigit(password[i])

any_punctuation(password) ==
    \E i \in 1..Len(password) : password[i] \in Range(symbols)

\* > in place of >= at both thresholds
LengthPoints_Strict(password) ==
    IF Len(password) > 12 THEN 2
    ELSE IF Len(password) > 8 THEN 1
    ELSE 0

LengthPoints(password) ==
    IF Len(password) >= 12 THEN 2
    ELSE IF Len(password) >= 8 THEN 1
    ELSE 0

Point(present) == IF present THEN 1 ELSE 0

score_of(password) ==
    LengthPoints(password)
    + Point(any_islower(password))
    + Point(any_isupper(password))
    + Point(any_isdigit(password))
    + Point(any_punctuation(password))

Advice(present, text) == IF present THEN <<>> ELSE <<text>>

\* the length check scores but gives no message
feedback_of_NoLength(password) ==
    Advice(any_islower(password), "Add lowercase letters")
    \o Advice(any_isupper(password), "Add uppercase letters")
    \o Advice(any_isdigit(password), "Add numbers")
    \o Advice(any_punctuation(password), "Add special characters")

\* the digit check moved before the uppercase check
feedback_of_Reordered(password) ==
    Advice(Len(password) >= 8, "Too short (minimum 8 characters)")
    \o Advice(any_islower(password), "Add lowercase letters")
    \o Advice(any_isdigit(password), "Add numbers")
    \o Advice(any_isupper(password), "Add uppercase letters")
    \o Advice(any_punctuation(password), "Add special characters")

feedback_of(password) ==
    Advice(Len(password) >= 8, "Too short (minimum 8 characters)")
    \o Advice(any_islower(password), "Add lowercase letters")
    \o Advice(any_isupper(password), "Add uppercase letters")
    \o Advice(any_isdigit(password), "Add numbers")
    \o Advice(any_punctuation(password), "Add special characters")

\* > in place of >= at both thresholds
strength_of_Strict(score) ==
    IF score > 5 THEN "Strong"
    ELSE IF score > 3 THEN "Medium"
    ELSE "Weak"

\* the strength label, without its coloured marker
strength_of(score) ==
    IF score >= 5 THEN "Strong"
    ELSE IF score >= 3 THEN "Medium"
    ELSE "Weak"

StrengthReport(password) ==
    LET score == score_of(password)
    IN  [strength |-> strength_of(score),
         score |-> score,
         feedback |-> feedback_of(password)]

\* the checked string stored like a generated one
check_strength_Stores(password) ==
    /\ op' = "check_strength"
    /\ UNCHANGED <<tasks, storage, calc_history>>
    /\ args' = [password |-> password]
    /\ ret' = DictVal(StrengthReport(password))
    /\ rng' = {}
    /\ printed' = Silent
    /\ history' = StoreInHistory(history, password)
    /\ UNCHANGED clipboard

check_strength(password) ==
    /\ op' = "check_strength"
    /\ UNCHANGED <<tasks, storage, calc_history>>
    /\ args' = [password |-> password]
    /\ ret' = DictVal(StrengthReport(password))
    /\ rng' = {}
    /\ printed' = Silent
    /\ UNCHANGED <<history, clipboard>>

----------------------------------------------------------------------------
(* PasswordGenerator.show_history                                          *)

show_history ==
    /\ op' = "show_history"
    /\ UNCHANGED <<tasks, storage, calc_history>>
    /\ args' = NoArgs
    /\ ret' = NoneVal
    /\ rng' = {}
    /\ printed' =
         IF history = <<>>
         THEN Output(<<"No password history available.">>, <<>>)
         ELSE Output(<<"PASSWORD HISTORY">>,
                     enumerate1(LastSlice(history, RecentCount)))
    /\ UNCHANGED <<history, clipboard>>

----------------------------------------------------------------------------
(* main(), option 1: the custom password dialogue                          *)

\* what the dialogue prints after the call: the returned value as the
\* generated password, its strength, the copy prompt and its outcome
PasswordDialogue(password, copy, available) ==
    LET result == StrengthReport(password)
    IN  Output(<<"Generated Password", "Strength", "Copy to clipboard?">>
               \o (IF ~copy THEN <<>>
                   ELSE IF available THEN <<"Password copied to clipboard!">>
                   ELSE <<"Clipboard not available">>),
               <<password, result.strength, result.score>>)

\* parses: int(input(...)) succeeded; copy: the user answered y;
\* available: pyperclip.copy did not raise.  ret keeps the value that
\* generate_password returned to main.
menu_password(parses, length, use_upper, use_lower, use_digits, use_symbols, exclude_ambiguous, copy, available, sample) ==
    /\ op' = "menu_1"
    /\ UNCHANGED <<tasks, storage, calc_history>>
    /\ IF ~parses
       THEN /\ printed' = Output(<<"Invalid input!">>, <<>>)
            /\ args' = NoArgs
            /\ ret' = NoneVal
            /\ rng' = {}
            /\ UNCHANGED <<history, clipboard>>
       ELSE /\ PasswordCall(length, use_upper, use_lower, use_digits,
                            use_symbols, exclude_ambiguous, sample)
            /\ printed' = PasswordDialogue(ret'.val, copy, available)
            /\ clipboard' = IF copy /\ available THEN StrVal(ret'.val)
                            ELSE clipboard

----------------------------------------------------------------------------
(* main(), option 2: the passphrase dialogue                               *)

WordCountAccepted(word_count) ==
    MinWords <= word_count /\ word_count <= MaxWordsAllowed

\* parses: int(input(...)) succeeded; copy: the user answered y;
\* available: pyperclip.copy did not raise
menu_passphrase(parses, word_count, copy, available, wordSample, suffixSample) ==
    /\ op' = "menu_2"
    /\ UNCHANGED <<tasks, storage, calc_history>>
    /\ IF ~parses
       THEN /\ printed' = Output(<<"Invalid input!">>, <<>>)
            /\ args' = NoArgs
            /\ ret' = NoneVal
            /\ rng' = {}
            /\ UNCHANGED <<history, clipboard>>
       ELSE IF ~WordCountAccepted(word_count)
       THEN /\ printed' = Output(<<"Word count must be between 3 and 6">>, <<>>)
            /\ args' = [word_count |-> word_count]
            /\ ret' = NoneVal
            /\ rng' = {}
            /\ UNCHANGED <<history, clipboard>>
       ELSE /\ PassphraseCall(word_count, wordSample, suffixSample)
            /\ IF ~copy
               THEN /\ printed' = Output(<<"Generated Passphrase", "Copy to clipboard?">>,
                                         <<ret'.val>>)
                    /\ UNCHANGED clipboard
               ELSE IF available
               THEN /\ printed' = Output(<<"Generated Passphrase", "Copy to clipboard?",
                                           "Passphrase copied!">>,
                                         <<ret'.val>>)
                    /\ clipboard' = StrVal(ret'.val)
               ELSE /\ printed' = Output(<<"Generated Passphrase", "Copy to clipboard?",
                                           "Clipboard not available">>,
                                         <<ret'.val>>)
                    /\ UNCHANGED clipboard

----------------------------------------------------------------------------
(* Inputs the specifications draw from.                                    *)

\* the characters the secure source may land on in a single call: the six
\* ambiguous ones and one more of every class
WideSample ==
    {<<"a">>, <<"l">>, <<"o">>, <<"A">>, <<"I">>, <<"O">>,
     <<"0">>, <<"1">>, <<"2">>, <<"!">>}

NarrowSample == {<<"a">>}

\* one character of every class, none of them ambiguous
MenuSample == {<<"a">>, <<"A">>, <<"2">>, <<"!">>}

WideWords == {words[1], words[15]}

NarrowWords == {words[1]}

WideSuffixes == {0, 5, 10, 42, 99}

NarrowSuffixes == {5}

Lengths == (0 - 1)..MaxLen

WordCounts == (0 - 1)..MaxWords

\* strings handed to check_strength
Candidates ==
    {<<>>, <<"a", "b", "c">>, 
     <<"A", "b", "c", "d", "e", "f", "1", "2">>, 
     <<"S", "t", "r", "0", "n", "g", "P", "@", "s", "s", "p", "h", "r", "a", "s", "e", "!">>}

\* the characters of the strings handed to check_strength in a single
\* call; "euro" stands for the euro sign (U+20AC), a character outside ASCII
\* that is no letter, no digit and no white space
StrengthChars == {"a", "A", "1", "!", " ", "euro"}

Repeat(c, n) == [i \in 1..n |-> c]

StrengthInputs ==
    Candidates
    \cup {core \o Repeat(pad, n) :
             core \in UNION {[1..k -> StrengthChars] : k \in 0..MaxCore},
             pad \in StrengthChars, n \in 0..MaxPad}

Init ==
    /\ history = <<>>
    /\ op = "init"
    /\ args = NoArgs
    /\ ret = NoneVal
    /\ rng = {}
    /\ printed = Silent
    /\ clipboard = NoneVal
    /\ tasks = <<>>
    /\ storage = NoneVal
    /\ calc_history = <<>>

----------------------------------------------------------------------------
(* SpecCall: one call on a freshly constructed generator, wide inputs.     *)

CallPassword ==
    /\ op = "init"
    /\ \E length \in Lengths :
       \E use_upper \in BOOLEAN, use_lower \in BOOLEAN :
       \E use_digits \in BOOLEAN, use_symbols \in BOOLEAN :
       \E exclude_ambiguous \in BOOLEAN :
           generate_password(length, use_upper, use_lower, use_digits,
                             use_symbols, exclude_ambiguous, WideSample)

CallPassphrase ==
    /\ op = "init"
    /\ \E word_count \in WordCounts :
           generate_passphrase(word_count, WideWords, WideSuffixes)

CallMenuPassphrase ==
    /\ op = "init"
    /\ \E parses \in BOOLEAN, copy \in BOOLEAN, available \in BOOLEAN :
       \E word_count \in WordCounts :
           menu_passphrase(parses, word_count, copy, available,
                           WideWords, WideSuffixes)

CallMenuPassword ==
    /\ op = "init"
    /\ \E parses \in BOOLEAN, copy \in BOOLEAN, available \in BOOLEAN :
       \E length \in Lengths :
       \E use_upper \in BOOLEAN, use_lower \in BOOLEAN :
       \E use_digits \in BOOLEAN, use_symbols \in BOOLEAN :
       \E exclude_ambiguous \in BOOLEAN :
           menu_password(parses, length, use_upper, use_lower, use_digits,
                         use_symbols, exclude_ambiguous, copy, available,
                         MenuSample)

CallCheckStrength ==
    /\ op = "init"
    /\ \E password \in StrengthInputs : check_strength(password)

NextCall ==
    \/ CallPassword
    \/ CallPassphrase
    \/ CallMenuPassphrase
    \/ CallMenuPassword
    \/ CallCheckStrength

SpecCall == Init /\ [][NextCall]_vars

----------------------------------------------------------------------------
(* Spec: a session of calls in any order, narrow random samples.           *)

SessionLengths == {MinLength - 1, MinLength}

SessionWordCounts == {0, MinWords, MaxWordsAllowed + 1}

DoPassword ==
    /\ Len(history) < MaxHist
    /\ \E length \in SessionLengths, use_lower \in BOOLEAN :
           generate_password(length, FALSE, use_lower, FALSE, FALSE, FALSE,
                             NarrowSample)

DoPassphrase ==
    /\ Len(history) < MaxHist
    /\ \E word_count \in SessionWordCounts :
           generate_passphrase(word_count, NarrowWords, NarrowSuffixes)

DoMenuPassphrase ==
    /\ Len(history) < MaxHist
    /\ \E parses \in BOOLEAN, copy \in BOOLEAN, available \in BOOLEAN :
       \E word_count \in SessionWordCounts :
           menu_passphrase(parses, word_count, copy, available,
                           NarrowWords, NarrowSuffixes)

DoMenuPassword ==
    /\ Len(history) < MaxHist
    /\ \E parses \in BOOLEAN, copy \in BOOLEAN, available \in BOOLEAN :
       \E length \in SessionLengths, use_lower \in BOOLEAN :
           menu_password(parses, length, FALSE, use_lower, FALSE, FALSE, FALSE,
                         copy, available, NarrowSample)

DoCheckStrength == \E password \in Candidates : check_strength(password)

DoShowHistory == show_history

Next ==
    \/ DoPassword
    \/ DoPassphrase
    \/ DoMenuPassphrase
    \/ DoMenuPassword
    \/ DoCheckStrength
    \/ DoShowHistory

Spec == Init /\ [][Next]_vars

----------------------------------------------------------------------------
(* SpecHistory: long histories of two distinct credentials.                *)

GrowPassword ==
    /\ Len(history) < HistDepth
    /\ generate_password(MinLength, FALSE, TRUE, FALSE, FALSE, FALSE, NarrowSample)

GrowPassphrase ==
    /\ Len(history) < HistDepth
    /\ generate_passphrase(MinWords, NarrowWords, NarrowSuffixes)

NextHistory == GrowPassword \/ GrowPassphrase \/ DoShowHistory

SpecHistory == Init /\ [][NextHistory]_vars

----------------------------------------------------------------------------
(* TaskManager (todo_app.py).                                              *)

\* most tasks held at once
MaxTasks == 3

ListVal(l) == [type |-> "list", val |-> l]

\* load_tasks: the saved list, or [] when there is no storage file
load_tasks == IF storage = NoneVal THEN <<>> ELSE storage.val

\* save_tasks: the storage file after the task list became l
save_tasks(l) == storage' = ListVal(l)

\* the id add_task gives the next task
NewId == Len(tasks) + 1

\* the position of the first task with this id, 0 when there is none: the
\* methods loop over self.tasks and return at the first match
FirstWithId(task_id) ==
    IF \E i \in 1..Len(tasks) : tasks[i].id = task_id
    THEN CHOOSE i \in 1..Len(tasks) :
             /\ tasks[i].id = task_id
             /\ \A j \in 1..(i - 1) : tasks[j].id # task_id
    ELSE 0

\* list.pop(i), the list that is left
pop(l, i) == SubSeq(l, 1, i - 1) \o SubSeq(l, i + 1, Len(l))

NotFound(task_id) ==
    /\ printed' = Output(<<"Task not found!">>, <<task_id>>)
    /\ UNCHANGED <<tasks, storage>>

\* TaskManager(): a manager constructed over the storage file as it is
TaskManager ==
    /\ op' = "TaskManager"
    /\ args' = NoArgs
    /\ ret' = NoneVal
    /\ rng' = {}
    /\ printed' = Silent
    /\ tasks' = load_tasks
    /\ UNCHANGED <<storage, history, clipboard, calc_history>>

\* now: what datetime.now() gives
add_task(description, priority, now) ==
    LET task == [id |-> NewId, description |-> description,
                 priority |-> priority, completed |-> FALSE,
                 created_at |-> now]
    IN  /\ op' = "add_task"
        /\ args' = [description |-> description, priority |-> priority]
        /\ ret' = NoneVal
        /\ rng' = {}
        /\ tasks' = Append(tasks, task)
        /\ save_tasks(tasks')
        /\ printed' = Output(<<"Task added successfully! (ID: )">>, <<task.id>>)
        /\ UNCHANGED <<history, clipboard, calc_history>>

view_tasks(filter_type) ==
    LET filtered_tasks ==
            IF filter_type = "pending"
            THEN SelectSeq(tasks, LAMBDA t : ~t.completed)
            ELSE IF filter_type = "completed"
            THEN SelectSeq(tasks, LAMBDA t : t.completed)
            ELSE tasks
    IN  /\ op' = "view_tasks"
        /\ args' = [filter_type |-> filter_type]
        /\ ret' = NoneVal
        /\ rng' = {}
        /\ printed' =
             IF tasks = <<>>
             THEN Output(<<"No tasks found. Start by adding a new task!">>, <<>>)
             ELSE IF filtered_tasks = <<>>
             THEN Output(<<"No tasks found.">>, <<filter_type>>)
             ELSE Output(<<"YOUR TASKS">>, filtered_tasks)
        /\ UNCHANGED <<tasks, storage, history, clipboard, calc_history>>

update_task(task_id, new_description) ==
    LET i == FirstWithId(task_id)
    IN  /\ op' = "update_task"
        /\ args' = [task_id |-> task_id, new_description |-> new_description]
        /\ ret' = NoneVal
        /\ rng' = {}
        /\ IF i = 0
           THEN NotFound(task_id)
           ELSE /\ tasks' = [tasks EXCEPT ![i].description = new_description]
                /\ save_tasks(tasks')
                /\ printed' = Output(<<"Task updated successfully!">>, <<task_id>>)
        /\ UNCHANGED <<history, clipboard, calc_history>>

mark_complete(task_id) ==
    LET i == FirstWithId(task_id)
    IN  /\ op' = "mark_complete"
        /\ args' = [task_id |-> task_id]
        /\ ret' = NoneVal
        /\ rng' = {}
        /\ IF i = 0
           THEN NotFound(task_id)
           ELSE /\ tasks' = [tasks EXCEPT ![i].completed = TRUE]
                /\ save_tasks(tasks')
                /\ printed' = Output(<<"Task marked as complete!">>, <<task_id>>)
        /\ UNCHANGED <<history, clipboard, calc_history>>

delete_task(task_id) ==
    LET i == FirstWithId(task_id)
    IN  /\ op' = "delete_task"
        /\ args' = [task_id |-> task_id]
        /\ ret' = NoneVal
        /\ rng' = {}
        /\ IF i = 0
           THEN NotFound(task_id)
           ELSE /\ tasks' = pop(tasks, i)
                /\ save_tasks(tasks')
                /\ printed' = Output(<<"Task deleted successfully!">>, <<task_id>>)
        /\ UNCHANGED <<history, clipboard, calc_history>>

----------------------------------------------------------------------------
(* SpecTasks: a session with one TaskManager.                              *)

Descriptions == {"a", "b"}

\* every priority for the first task of a list, the default after that
Priorities == IF tasks = <<>> THEN {"high", "medium", "low"} ELSE {"medium"}

Timestamps == {"t1"}

Filters == {"all", "pending", "completed"}

TaskIds == 0..(MaxTasks + 1)

AddTask ==
    /\ Len(tasks) < MaxTasks
    /\ \E description \in Descriptions, priority \in Priorities, now \in Timestamps :
           add_task(description, priority, now)

ViewTasks == \E filter_type \in Filters : view_tasks(filter_type)

UpdateTask ==
    \E task_id \in TaskIds, new_description \in Descriptions :
        update_task(task_id, new_description)

MarkComplete == \E task_id \in TaskIds : mark_complete(task_id)

DeleteTask == \E task_id \in TaskIds : delete_task(task_id)

Restart == TaskManager

NextTasks ==
    \/ AddTask
    \/ ViewTasks
    \/ UpdateTask
    \/ MarkComplete
    \/ DeleteTask
    \/ Restart

SpecTasks == Init /\ [][NextTasks]_vars

----------------------------------------------------------------------------
(* ScientificCalculator (calculator.py).  Numbers are whole-valued floats; *)
(* an exact result is the fraction num/den, a result of a transcendental   *)
(* function is the term fn(x).                                             *)

\* most entries of the calculator's history
MaxCalc == 3

\* the keys of self.operations
operations == {"+", "-", "*", "/", "**", "%", "//"}

\* the keys of operations_map
operations_map ==
    {"sqrt", "square", "cube", "sin", "cos", "tan", "log", "ln", "factorial"}

Num(n, d) == [num |-> n, den |-> d]

Term(fn, x) == [fn |-> fn, x |-> x]

FloatVal(v) == [type |-> "float", val |-> v]

\* the outcome of a computation: a value, or the error text returned
Value(v) == [ok |-> TRUE, val |-> v]

\* the text "Error: " followed by a message; the message is one item
ErrorText(message) == ErrorPrefix \o <<" ", message>>

Failed(message) == [ok |-> FALSE, val |-> ErrorText(message)]

\* except Exception as e: the error text made of str(e)
Raised(e) == Failed(e)

\* operator.floordiv: the quotient rounded down
floordiv(a, b) == IF b > 0 THEN a \div b ELSE (0 - a) \div (0 - b)

\* operator.mod: the remainder has the sign of the divisor
mod(a, b) == a - b * floordiv(a, b)

RECURSIVE power(_, _)
\* a ** n for n >= 0
power(a, n) == IF n = 0 THEN 1 ELSE a * power(a, n - 1)

\* operator.pow
pow(a, b) ==
    IF b >= 0 THEN Value(Num(power(a, b), 1))
    ELSE IF a = 0 THEN Raised("ZeroDivisionError")
    ELSE Value(Num(1, power(a, 0 - b)))

RECURSIVE factorial(_)
\* math.factorial
factorial(n) == IF n = 0 THEN 1 ELSE n * factorial(n - 1)

\* self.operations[operation](num1, num2)
ApplyOperation(operation, num1, num2) ==
    CASE operation = "+"  -> Value(Num(num1 + num2, 1))
      [] operation = "-"  -> Value(Num(num1 - num2, 1))
      [] operation = "*"  -> Value(Num(num1 * num2, 1))
      [] operation = "/"  -> IF num2 = 0 THEN Raised("ZeroDivisionError")
                             ELSE Value(Num(num1, num2))
      [] operation = "**" -> pow(num1, num2)
      [] operation = "%"  -> IF num2 = 0 THEN Raised("ZeroDivisionError")
                             ELSE Value(Num(mod(num1, num2), 1))
      [] operation = "//" -> IF num2 = 0 THEN Raised("ZeroDivisionError")
                             ELSE Value(Num(floordiv(num1, num2), 1))

\* operations_map[operation](value)
ApplyScientific(operation, value) ==
    CASE operation = "sqrt" -> IF value < 0 THEN Raised("ValueError")
                               ELSE Value(Term("sqrt", value))
      [] operation = "square" -> Value(Num(value * value, 1))
      [] operation = "cube" -> Value(Num(value * value * value, 1))
      [] operation \in {"sin", "cos", "tan"} -> Value(Term(operation, value))
      [] operation = "log" -> IF value <= 0 THEN Raised("ValueError")
                              ELSE Value(Term("log10", value))
      [] operation = "ln" -> IF value <= 0 THEN Raised("ValueError")
                             ELSE Value(Term("log", value))
      [] operation = "factorial" -> IF value < 0 THEN Raised("ValueError")
                                    ELSE Value(Num(factorial(value), 1))

\* what calculate computes, early returns included
CalculateOutcome(num1, operation, num2) ==
    IF operation \notin operations THEN Failed("Invalid operation")
    ELSE IF operation = "/" /\ num2 = 0 THEN Failed("Division by zero")
    ELSE ApplyOperation(operation, num1, num2)

\* what scientific_operation computes
ScientificOutcome(operation, value) ==
    IF operation \notin operations_map
    THEN Failed("Invalid scientific operation")
    ELSE ApplyScientific(operation, value)

\* the history entry of a computation
Entry(operation, operands, result, now) ==
    [calc |-> [operation |-> operation, operands |-> operands,
               result |-> result],
     time |-> now]

\* the entry appended before the operation is applied
Recorded_BeforeApplying(outcome, entry) == Append(calc_history, entry)

\* self.history after the call: the append is reached only with a result
Recorded(outcome, entry) ==
    IF outcome.ok THEN Append(calc_history, entry) ELSE calc_history

Returned(outcome) ==
    IF outcome.ok THEN FloatVal(outcome.val) ELSE StrVal(outcome.val)

calculate(num1, operation, num2, now) ==
    LET outcome == CalculateOutcome(num1, operation, num2)
    IN  /\ op' = "calculate"
        /\ args' = [num1 |-> num1, operation |-> operation, num2 |-> num2]
        /\ rng' = {}
        /\ printed' = Silent
        /\ calc_history' =
               Recorded(outcome,
                        Entry(operation, <<num1, num2>>, outcome.val, now))
        /\ ret' = Returned(outcome)
        /\ UNCHANGED <<history, clipboard, tasks, storage>>

scientific_operation(operation, value, now) ==
    LET outcome == ScientificOutcome(operation, value)
    IN  /\ op' = "scientific_operation"
        /\ args' = [operation |-> operation, value |-> value]
        /\ rng' = {}
        /\ printed' = Silent
        /\ calc_history' =
               Recorded(outcome, Entry(operation, <<value>>, outcome.val, now))
        /\ ret' = Returned(outcome)
        /\ UNCHANGED <<history, clipboard, tasks, storage>>

\* ScientificCalculator.show_history
calc_show_history ==
    /\ op' = "calc_show_history"
    /\ args' = NoArgs
    /\ ret' = NoneVal
    /\ rng' = {}
    /\ printed' =
         IF calc_history = <<>>
         THEN Output(<<"No history available yet.">>, <<>>)
         ELSE Output(<<"CALCULATION HISTORY">>, enumerate1(calc_history))
    /\ UNCHANGED <<calc_history, history, clipboard, tasks, storage>>

clear_history ==
    /\ op' = "clear_history"
    /\ args' = NoArgs
    /\ ret' = NoneVal
    /\ rng' = {}
    /\ calc_history' = <<>>
    /\ printed' = Output(<<"History cleared successfully!">>, <<>>)
    /\ UNCHANGED <<history, clipboard, tasks, storage>>

----------------------------------------------------------------------------
(* SpecCalc: a session with one calculator; every operation on every pair  *)
(* of numbers while the history is empty, a few calls after that.          *)

Numbers == {0 - 1, 0, 2}

AnyOperation == operations \cup {"?"}

AnyScientific == operations_map \cup {"?"}

LaterOperations == {"+", "/", "%", "?"}

LaterScientific == {"sqrt", "square", "?"}

FirstOperand == IF calc_history = <<>> THEN Numbers ELSE {2}

SecondOperand == IF calc_history = <<>> THEN Numbers ELSE {0, 2}

ScientificOperand == IF calc_history = <<>> THEN Numbers ELSE {0 - 1, 2}

Calculate ==
    /\ Len(calc_history) < MaxCalc
    /\ \E num1 \in FirstOperand, num2 \in SecondOperand, now \in Timestamps :
        \E operation \in (IF calc_history = <<>> THEN AnyOperation
                          ELSE LaterOperations) :
            calculate(num1, operation, num2, now)

Scientific ==
    /\ Len(calc_history) < MaxCalc
    /\ \E value \in ScientificOperand, now \in Timestamps :
        \E operation \in (IF calc_history = <<>> THEN AnyScientific
                          ELSE LaterScientific) :
            scientific_operation(operation, value, now)

ShowCalcHistory == calc_show_history

ClearHistory == clear_history

NextCalc ==
    \/ Calculate
    \/ Scientific
    \/ ShowCalcHistory
    \/ ClearHistory

SpecCalc == Init /\ [][NextCalc]_vars

----------------------------------------------------------------------------
(* Properties of generate_password, one call on a fresh generator          *)
(* (SpecCall).                                                             *)

\* k: the number of enabled character classes of a generate_password call
EnabledCount(a) ==
    Point(a.use_lower) + Point(a.use_upper) + Point(a.use_digits)
    + Point(a.use_symbols)

Max(x, y) == IF x >= y THEN x ELSE y

\* length >= max(4, k) and k >= 1
ValidConfig(a) ==
    EnabledCount(a) >= 1 /\ a.length >= Max(MinLength, EnabledCount(a))

PasswordCalled == op = "generate_password"

Contains(s, alphabet) == \E i \in 1..Len(s) : s[i] \in Range(alphabet)

AmbiguousChars == {"l", "o", "I", "O", "0", "1"}

\* C1: for every valid configuration generate_password returns a credential
\* whose length is exactly the requested length.
C1_LengthExact ==
    (PasswordCalled /\ ValidConfig(args)) =>
        /\ ret.type = "str"
        /\ ~IsErrorText(ret.val)
        /\ Len(ret.val) = args.length

C1_Witness ==
    /\ PasswordCalled
    /\ ValidConfig(args)
    /\ args.length = MaxLen
    /\ EnabledCount(args) = 2
    /\ args.exclude_ambiguous
    /\ Len(ret.val) = MaxLen

\* C2: for every valid configuration the returned credential, as shuffled,
\* holds at least one character of every enabled class.
C2_ClassCoverage ==
    (PasswordCalled /\ ValidConfig(args)) =>
        /\ args.use_lower => Contains(ret.val, lowercase)
        /\ args.use_upper => Contains(ret.val, uppercase)
        /\ args.use_digits => Contains(ret.val, digits)
        /\ args.use_symbols => Contains(ret.val, symbols)

\* all four classes enabled, and the lowercase character is not in front
C2_Witness ==
    /\ PasswordCalled
    /\ ValidConfig(args)
    /\ EnabledCount(args) = 4
    /\ Contains(ret.val, lowercase) /\ Contains(ret.val, uppercase)
    /\ Contains(ret.val, digits) /\ Contains(ret.val, symbols)
    /\ ret.val[1] \notin Range(lowercase)

\* C3: with exclude_ambiguous set, no returned credential holds any of
\* l, o, I, O, 0, 1, whichever classes are enabled.
C3_NoAmbiguous ==
    (PasswordCalled /\ args.exclude_ambiguous /\ ~IsErrorText(ret.val)) =>
        \A i \in 1..Len(ret.val) : ret.val[i] \notin AmbiguousChars

\* a credential of mandatory and filler characters drawn with the exclusion on
C3_Witness ==
    /\ PasswordCalled
    /\ args.exclude_ambiguous
    /\ args.use_lower /\ args.use_upper /\ args.use_digits
    /\ ~args.use_symbols
    /\ Len(ret.val) = MaxLen
    /\ ~IsErrorText(ret.val)

\* C4: every random draw of generate_password (mandatory characters, filler
\* characters, final shuffle) comes from the cryptographically secure source.
C4_AllDrawsSecure ==
    PasswordCalled => \A d \in rng : d[2] = "secrets"

\* C5: generate_password returns the invalid-length error, and no credential,
\* whenever the requested length is below 4 or below the number of enabled
\* classes, whatever the class flags and exclude_ambiguous.
C5_InvalidLength ==
    (PasswordCalled
     /\ (args.length < MinLength \/ args.length < EnabledCount(args))) =>
        /\ ret = StrVal(ErrLength)
        /\ history = <<>>

\* length 3 with all four classes enabled
C5_Witness ==
    /\ PasswordCalled
    /\ args.length = MinLength - 1
    /\ EnabledCount(args) = 4
    /\ ret = StrVal(ErrLength)
    /\ history = <<>>

\* C6 as claimed: generate_password returns the no-class-selected error
\* whenever no class is enabled, for every requested length.
C6_NoClassAnyLength ==
    (PasswordCalled /\ EnabledCount(args) = 0) => ret = StrVal(ErrNoClass)

\* C6 as amended: generate_password returns the no-class-selected error, and
\* stores nothing, whenever no class is enabled and the requested length is
\* at least 4; below 4 the invalid-length error comes first.
C6_NoClassValidLength ==
    (PasswordCalled /\ EnabledCount(args) = 0 /\ args.length >= MinLength) =>
        /\ ret = StrVal(ErrNoClass)
        /\ history = <<>>

C6_Witness ==
    /\ PasswordCalled
    /\ EnabledCount(args) = 0
    /\ args.length = MinLength
    /\ args.exclude_ambiguous
    /\ ret = StrVal(ErrNoClass)

\* C7: generate_passphrase returns an error value, and no credential, for
\* every word count outside [3, 6].
C7_WordCountRejected ==
    (op = "generate_passphrase" /\ ~WordCountAccepted(args.word_count)) =>
        /\ IsErrorText(ret.val)
        /\ history = <<>>

----------------------------------------------------------------------------
(* Properties of the history, over sessions of calls (Spec, SpecHistory).  *)

\* the failure cases of the two generating methods: invalid length, no
\* class selected, word count out of range
FailureCase(o, a) ==
    \/ /\ o = "generate_password"
       /\ \/ a.length < MinLength
          \/ a.length < EnabledCount(a)
          \/ EnabledCount(a) = 0
    \/ /\ o = "generate_passphrase"
       /\ ~WordCountAccepted(a.word_count)

\* C8: whenever generate_password or generate_passphrase is called in one of
\* its failure cases, the history after the call is the history before it.
C8_FailureKeepsHistory ==
    [][FailureCase(op', args') => history' = history]_vars

Generating == {"generate_password", "generate_passphrase", "menu_1", "menu_2"}

\* the last operation generated and returned a credential
Succeeded(o, r) ==
    o \in Generating /\ r.type = "str" /\ ~IsErrorText(r.val)

\* C9: every successful generate_password or generate_passphrase call
\* appends the value it returns once, at the end of the history; every other
\* step (a failed call, check_strength, show_history) leaves the history as
\* it was, so the history is the returned credentials in call order.
C9_HistoryIsReturnedValues ==
    [][IF Succeeded(op', ret')
       THEN history' = Append(history, ret'.val)
       ELSE history' = history]_vars

\* two different credentials stored, then a call that stores nothing
C9_Witness ==
    /\ Len(history) = MaxHist
    /\ history[1] # history[2]
    /\ op = "check_strength"

Min(x, y) == IF x <= y THEN x ELSE y

\* C10: show_history shows the last min(10, size) entries of the history in
\* insertion order, the most recent last, numbered from 1; after 15
\* generations these are generations 6 to 15, and with fewer than 10 entries
\* all of them.
C10_RecentView ==
    op = "show_history" =>
        LET size == Len(history)
            shown == Min(RecentCount, size)
        IN  /\ Len(printed.shown) = shown
            /\ \A i \in 1..shown :
                   printed.shown[i] = <<i, history[size - shown + i]>>

\* 15 generations, the fifth and sixth different, then show_history
C10_Witness ==
    /\ op = "show_history"
    /\ Len(history) = HistDepth
    /\ Len(printed.shown) = RecentCount
    /\ history[HistDepth - RecentCount] # history[HistDepth - RecentCount + 1]
    /\ printed.shown[1] = <<1, history[HistDepth - RecentCount + 1]>>

----------------------------------------------------------------------------
(* Properties of generate_passphrase, one call on a fresh generator        *)
(* (SpecCall).  The returned text is taken apart again, character by       *)
(* character.                                                              *)

\* s.split(sep) for a one-character sep
RECURSIVE Split(_, _)
Split(s, sep) ==
    IF \A i \in 1..Len(s) : s[i] # sep THEN <<s>>
    ELSE LET k == CHOOSE i \in 1..Len(s) :
                      s[i] = sep /\ \A j \in 1..(i - 1) : s[j] # sep
         IN  <<SubSeq(s, 1, k - 1)>> \o Split(SubSeq(s, k + 1, Len(s)), sep)

\* how many decimal digits end s
RECURSIVE TrailingDigits(_)
TrailingDigits(s) ==
    IF s = <<>> \/ s[Len(s)] \notin Range(digits) THEN 0
    ELSE 1 + TrailingDigits(SubSeq(s, 1, Len(s) - 1))

\* p is a word of the list with its first letter in upper case
IsCapitalizedWord(p) ==
    \E k \in 1..Len(words) :
        /\ Len(p) = Len(words[k])
        /\ \A j \in 1..Len(p) :
               IF j = 1
               THEN p[j] = uppercase[IndexIn(lowercase, words[k][j])]
               ELSE p[j] = words[k][j]

PassphraseCalled == op = "generate_passphrase"

\* the hyphen-separated parts of the returned text, the digits that end
\* the last part taken off
PassphraseWords(s) ==
    LET parts == Split(s, "-")
        n == Len(parts)
    IN  [i \in 1..n |->
            IF i < n THEN parts[i]
            ELSE SubSeq(parts[n], 1, Len(parts[n]) - TrailingDigits(parts[n]))]

\* C11: for every word count in [3, 6] generate_passphrase returns exactly
\* that many words, each a capitalized member of the word list, joined by
\* '-' and followed by a numeric suffix.
C11_PassphraseShape ==
    (PassphraseCalled /\ WordCountAccepted(args.word_count)) =>
        /\ Len(PassphraseWords(ret.val)) = args.word_count
        /\ \A i \in 1..args.word_count :
               IsCapitalizedWord(PassphraseWords(ret.val)[i])
        /\ TrailingDigits(ret.val) >= 1

\* four words, one of them drawn twice
C11_Witness ==
    /\ PassphraseCalled
    /\ args.word_count = MinWords + 1
    /\ Len(PassphraseWords(ret.val)) = MinWords + 1
    /\ PassphraseWords(ret.val)[1] = PassphraseWords(ret.val)[2]
    /\ PassphraseWords(ret.val)[3] # PassphraseWords(ret.val)[1]
    /\ IsCapitalizedWord(PassphraseWords(ret.val)[3])

\* C12: the numeric suffix of every generated passphrase is exactly two
\* digits long, for every value drawn from [0, 100), those below 10 too.
C12_TwoDigitSuffix ==
    (PassphraseCalled /\ WordCountAccepted(args.word_count)) =>
        TrailingDigits(ret.val) = 2

----------------------------------------------------------------------------
(* Properties of check_strength (SpecCall for the report, Spec for the     *)
(* effect on the generator).                                               *)

StrengthCalled == op = "check_strength"

\* "abc"
ExampleWeak == <<"a", "b", "c">>

\* "Str0ngP@ssphrase!"
ExampleStrong ==
    <<"S", "t", "r", "0", "n", "g", "P", "@", "s", "s", "p", "h", "r", "a", "s", "e", "!">>

\* the lowercase, uppercase, digit and symbol points of s, a symbol being a
\* character of string.punctuation
ClassPoints(s) ==
    Point(Contains(s, lowercase)) + Point(Contains(s, uppercase))
    + Point(Contains(s, digits)) + Point(Contains(s, symbols))

\* C13: the score is the length points (2 from 12 characters on, 1 from 8
\* on, else 0) plus one point for each class present, an integer of 0..6;
\* "abc" scores 1 and "Str0ngP@ssphrase!" scores 6.
C13_ScoreFormula ==
    StrengthCalled =>
        /\ ret.val.score =
               (IF Len(args.password) >= 12 THEN 2
                ELSE IF Len(args.password) >= 8 THEN 1 ELSE 0)
               + ClassPoints(args.password)
        /\ ret.val.score \in 0..6
        /\ args.password = ExampleWeak => ret.val.score = 1
        /\ args.password = ExampleStrong => ret.val.score = 6

\* a twelve-character string of three classes: 2 + 3
C13_Witness ==
    /\ StrengthCalled
    /\ Len(args.password) = 12
    /\ ClassPoints(args.password) = 3
    /\ ret.val.score = 5

\* C14: the rating depends on the score alone: Strong from 5 on, Medium for
\* 3 and 4, Weak up to 2.
C14_RatingFromScore ==
    StrengthCalled =>
        /\ ret.val.score >= 5 => ret.val.strength = "Strong"
        /\ ret.val.score \in 3..4 => ret.val.strength = "Medium"
        /\ ret.val.score <= 2 => ret.val.strength = "Weak"

C14_Witness ==
    /\ StrengthCalled
    /\ ret.val.score = 3
    /\ ret.val.strength = "Medium"
    /\ Len(args.password) >= 8

\* the five checks in their fixed order: whether s passes, and the message
\* given when it does not
StrengthChecks(s) ==
    << <<Len(s) >= 8, "Too short (minimum 8 characters)">>,
       <<Contains(s, lowercase), "Add lowercase letters">>,
       <<Contains(s, uppercase), "Add uppercase letters">>,
       <<Contains(s, digits), "Add numbers">>,
       <<Contains(s, symbols), "Add special characters">> >>

FailedChecks(s) == SelectSeq(StrengthChecks(s), LAMBDA c : ~c[1])

\* C15: the feedback holds exactly one message per failed check, in the
\* order of the checks, and is empty whenever the score is 6; "abc" gets
\* the too-short, uppercase, numbers and special-characters messages.
C15_FeedbackPerFailedCheck ==
    StrengthCalled =>
        /\ Len(ret.val.feedback) = Len(FailedChecks(args.password))
        /\ \A i \in 1..Len(ret.val.feedback) :
               ret.val.feedback[i] = FailedChecks(args.password)[i][2]
        /\ ret.val.score = 6 => ret.val.feedback = <<>>
        /\ args.password = ExampleWeak =>
               ret.val.feedback =
                   <<"Too short (minimum 8 characters)", "Add uppercase letters",
                     "Add numbers", "Add special characters">>

\* a short string lacking its uppercase letter and its digit
C15_Witness ==
    /\ StrengthCalled
    /\ Len(args.password) = 3
    /\ ret.val.feedback =
           <<"Too short (minimum 8 characters)", "Add uppercase letters",
             "Add numbers">>

\* C16: check_strength returns a report for every string, the empty one
\* too, and leaves the history (and the rest of the generator) as it was.
C16_TotalAndStateless ==
    /\ [](\A s \in Candidates : ENABLED check_strength(s))
    /\ [][op' = "check_strength" =>
             /\ ret'.type = "dict"
             /\ ret'.val = StrengthReport(args'.password)
             /\ history' = history
             /\ clipboard' = clipboard]_vars

\* the empty string scored while the history holds credentials
C16_Witness ==
    /\ StrengthCalled
    /\ args.password = <<>>
    /\ ret.type = "dict"
    /\ ret.val.score = 0
    /\ Len(history) = MaxHist

IsAlnum(c) == c \in Range(lowercase) \cup Range(uppercase) \cup Range(digits)

IsSpace(c) == c = " "

SymbolPointAwarded(report) ==
    \A i \in 1..Len(report.feedback) :
        report.feedback[i] # "Add special characters"

\* C17: the symbol point is awarded exactly when the string holds a
\* character that is neither alphanumeric nor white space, whatever the
\* character; otherwise the feedback says "Add special characters".
C17_SymbolIsNonAlnumNonSpace ==
    StrengthCalled =>
        (SymbolPointAwarded(ret.val)
         <=> \E i \in 1..Len(args.password) :
                 ~IsAlnum(args.password[i]) /\ ~IsSpace(args.password[i]))

----------------------------------------------------------------------------
(* Composition of the credential of generate_password (SpecCall).          *)

\* how many characters of s are in the alphabet
CountIn(s, alphabet) ==
    Cardinality({i \in 1..Len(s) : s[i] \in Range(alphabet)})

\* C18: with length 4 and all four classes enabled generate_password
\* succeeds without drawing a filler character, and the credential holds
\* exactly one character of each class.
C18_OnePerClass ==
    (PasswordCalled /\ EnabledCount(args) = 4 /\ args.length = 4) =>
        /\ ~IsErrorText(ret.val)
        /\ history = <<ret.val>>
        /\ \A d \in rng : d[1] # "remaining"
        /\ CountIn(ret.val, lowercase) = 1
        /\ CountIn(ret.val, uppercase) = 1
        /\ CountIn(ret.val, digits) = 1
        /\ CountIn(ret.val, symbols) = 1

\* the symbol drawn first ends up in front: some order other than the
\* order of the draws
C18_Witness ==
    /\ PasswordCalled
    /\ EnabledCount(args) = 4
    /\ args.length = 4
    /\ ~args.exclude_ambiguous
    /\ CountIn(ret.val, symbols) = 1
    /\ ret.val[1] \in Range(symbols)
    /\ ret.val[4] \in Range(lowercase)

\* the characters of the enabled classes, the ambiguous ones taken out
\* when the exclusion is on
EnabledAlphabet(a) ==
    ((IF a.use_lower THEN Range(lowercase) ELSE {})
     \cup (IF a.use_upper THEN Range(uppercase) ELSE {})
     \cup (IF a.use_digits THEN Range(digits) ELSE {})
     \cup (IF a.use_symbols THEN Range(symbols) ELSE {}))
    \ (IF a.exclude_ambiguous THEN AmbiguousChars ELSE {})

\* C19: every character of a returned credential is in the union of the
\* enabled classes' alphabets after the exclusion, so a disabled class
\* contributes nothing; and the credential is an arrangement of one
\* mandatory character per enabled class and length - k filler characters
\* of that union: length characters in all, each enabled class present.
C19_FromEnabledPool ==
    (PasswordCalled /\ ~IsErrorText(ret.val)) =>
        /\ \A i \in 1..Len(ret.val) : ret.val[i] \in EnabledAlphabet(args)
        /\ Len(ret.val) = args.length
        /\ args.use_lower => CountIn(ret.val, lowercase) >= 1
        /\ args.use_upper => CountIn(ret.val, uppercase) >= 1
        /\ args.use_digits => CountIn(ret.val, digits) >= 1
        /\ args.use_symbols => CountIn(ret.val, symbols) >= 1
        /\ args.length - EnabledCount(args) > 0 =>
               <<"remaining", "secrets">> \in rng

\* two classes, two filler characters, both digits
C19_Witness ==
    /\ PasswordCalled
    /\ args.use_lower /\ args.use_digits
    /\ ~args.use_upper /\ ~args.use_symbols
    /\ args.length = 4
    /\ CountIn(ret.val, lowercase) = 1
    /\ CountIn(ret.val, digits) = 3

----------------------------------------------------------------------------
(* The custom password dialogue of main() (SpecCall).                      *)

Printed(line) == \E i \in 1..Len(printed.lines) : printed.lines[i] = line

\* C20: when generate_password fails in the custom password dialogue, the
\* error value is not displayed as a generated password, is not given to
\* the strength evaluator and is not offered for a clipboard copy.
C20_FailureHandledAsError ==
    (op = "menu_1" /\ ret.type = "str" /\ IsErrorText(ret.val)) =>
        /\ ~Printed("Generated Password")
        /\ ~Printed("Strength")
        /\ ~Printed("Copy to clipboard?")
        /\ clipboard # StrVal(ret.val)

----------------------------------------------------------------------------
(* Score and feedback of check_strength taken together (SpecCall).         *)

\* C21: the score and the number of feedback messages add up to 6 for a
\* string of 12 characters or more and to 5 for a shorter one; so the
\* feedback is empty exactly when the string has 8 characters or more and
\* all four classes, and the score is then 5 or 6.
C21_ScorePlusFeedback ==
    StrengthCalled =>
        /\ ret.val.score + Len(ret.val.feedback) =
               (IF Len(args.password) >= 12 THEN 6 ELSE 5)
        /\ ret.val.feedback = <<>>
               <=> (Len(args.password) >= 8 /\ ClassPoints(args.password) = 4)
        /\ ret.val.feedback = <<>> => ret.val.score \in {5, 6}

\* eight characters of all four classes: score 5, nothing to advise
C21_Witness ==
    /\ StrengthCalled
    /\ Len(args.password) = 8
    /\ ret.val.score = 5
    /\ ret.val.feedback = <<>>

----------------------------------------------------------------------------
(* The ids of a TaskManager's tasks (SpecTasks).                           *)

\* C22: no two tasks of the task list have the same id, so an id given to
\* update_task, mark_complete or delete_task names at most one task.
C22_UniqueIds ==
    \A i, j \in 1..Len(tasks) : i # j => tasks[i].id # tasks[j].id

----------------------------------------------------------------------------
(* The calculator's history (SpecCalc).                                    *)

Computing == {"calculate", "scientific_operation"}

\* an error value: a string that starts with "Error:"
IsErrorValue(r) == r.type = "str" /\ IsErrorText(r.val)

\* the kinds of failure of a call: unknown operation, division by zero,
\* an exception raised by the operation
FailureKind(a) ==
    IF "num1" \in DOMAIN a
    THEN \/ a.operation \notin operations
         \/ a.operation \in {"/", "%", "//"} /\ a.num2 = 0
         \/ a.operation = "**" /\ a.num1 = 0 /\ a.num2 < 0
    ELSE \/ a.operation \notin operations_map
         \/ a.operation \in {"sqrt", "factorial"} /\ a.value < 0
         \/ a.operation \in {"log", "ln"} /\ a.value <= 0

\* C23: calculate and scientific_operation return an error value exactly
\* in the failure cases and then leave the history as it was; with a result
\* they append exactly one entry, the earlier entries kept; a step that
\* removes entries is a clear_history.
C23_HistoryFrame ==
    [][/\ op' \in Computing =>
            /\ IsErrorValue(ret') <=> FailureKind(args')
            /\ IF IsErrorValue(ret')
               THEN calc_history' = calc_history
               ELSE /\ Len(calc_history') = Len(calc_history) + 1
                    /\ SubSeq(calc_history', 1, Len(calc_history)) = calc_history
                    /\ calc_history'[Len(calc_history')].calc.result = ret'.val
       /\ Len(calc_history') < Len(calc_history) => op' = "clear_history"
       /\ op' = "calc_show_history" => calc_history' = calc_history]_vars

\* a modulo by zero, caught as an exception, with an entry in the history
C23_Witness ==
    /\ op = "calculate"
    /\ args.operation = "%"
    /\ args.num2 = 0
    /\ IsErrorValue(ret)
    /\ Len(calc_history) = 1

====
